---- MODULE Spec2Model ----
(***************************************************************************)
(* Credential lifecycle of project-service: CredentialService over the     *)
(* credential, permission and audit DAOs, the Vault adapter and the Fernet *)
(* wrapper.                                                                *)
(*                                                                         *)
(* Text values are sequences of atoms (a string is the concatenation of    *)
(* its atoms), so that f-strings, prefixes and ciphertext tokens are       *)
(* computed and not looked up.  Python None is the text None; SQL NULL of  *)
(* an id column is NoId.                                                   *)
(*                                                                         *)
(* The relational store and the secret store are external and persistent:  *)
(* a service process starts against the rows that are already there.       *)
(* Init therefore provisions two credential rows, each with its secret     *)
(* stored under the path the service computes for it.                      *)
(***************************************************************************)
EXTENDS Integers, Sequences, FiniteSets, TLC

\* ---------------------------------------------------------------- bounds
MaxAudit == 2

\* --------------------------------------------------------------- domains
None == <<"None">>
NoId == 0

Users == {"u1", "u2"}
CustomerIds == {1, 2}
VendorIds == {1}
ProjectIds == {1}
MissingId == 3
\* access keys are spelt out character by character: the service masks them
AK1 == <<"A", "K", "I", "A", "1">>
AK2 == <<"A", "K", "I", "A", "2">>
AccessKeys == {AK1, AK2}
SecretKeys == {<<"SK1">>, <<"SK2">>}
SecretAtoms == {"SK1", "SK2"}
Nonces == {"iv1", "iv2"}
Statuses == {"active", "disabled", "deleted"}

\* str(int) for the ids that occur
Str(i) == <<"0", "1", "2", "3", "4", "5", "6", "7", "8", "9">>[i + 1]

\* settings.vault_credential_path, as configured in .env
vault_credential_path == <<"secret", "credentials">>

\* ---------------------------------------------------------------- crypto
\* encrypt that returns its input: the secret reaches the store in the clear
encrypt_plain(plaintext, iv) == plaintext

\* CryptoUtil.encrypt: "" stays "", otherwise urlsafe-base64 of a Fernet
\* token, which carries a fresh IV
encrypt(plaintext, iv) ==
    IF plaintext = <<>> THEN <<>>
    ELSE <<"b64", "fernet", iv>> \o plaintext

\* whether base64-decoding and Fernet verification of the token succeed
IsToken(ciphertext) ==
    /\ Len(ciphertext) > 3
    /\ ciphertext[1] = "b64"
    /\ ciphertext[2] = "fernet"
    /\ ciphertext[3] \in Nonces

\* a decrypt that leaves the IV in front of the plaintext
decrypt_with_iv(ciphertext) ==
    IF ciphertext = <<>> THEN [ok |-> TRUE, value |-> <<>>]
    ELSE IF IsToken(ciphertext)
         THEN [ok |-> TRUE, value |-> SubSeq(ciphertext, 3, Len(ciphertext))]
         ELSE [ok |-> FALSE, value |-> <<>>]

\* a decrypt that hands back what it cannot decrypt instead of raising
decrypt_lenient(ciphertext) ==
    IF ciphertext = <<>> THEN [ok |-> TRUE, value |-> <<>>]
    ELSE IF IsToken(ciphertext)
         THEN [ok |-> TRUE, value |-> SubSeq(ciphertext, 4, Len(ciphertext))]
         ELSE [ok |-> TRUE, value |-> ciphertext]

\* CryptoUtil.decrypt: [ok, value]; ok = FALSE is the ValueError
decrypt(ciphertext) ==
    IF ciphertext = <<>> THEN [ok |-> TRUE, value |-> <<>>]
    ELSE IF IsToken(ciphertext)
         THEN [ok |-> TRUE, value |-> SubSeq(ciphertext, 4, Len(ciphertext))]
         ELSE [ok |-> FALSE, value |-> <<>>]

\* ----------------------------------------------------------------- vault
\* a path that names the scope and the vendor only
VaultPath_scope_only(customer_id, vendor_id, access_key) ==
    vault_credential_path
        \o <<Str(customer_id), "no-project", Str(vendor_id)>>

\* the f-string of create_credential / update_credential
VaultPath(customer_id, vendor_id, access_key) ==
    vault_credential_path
        \o <<Str(customer_id), "no-project", Str(vendor_id)>>
        \o access_key

\* the KV v2 path normalisation shared by write/read/delete_secret
KvPath(path) ==
    IF Len(path) > 1 /\ path[1] = "secret" THEN Tail(path) ELSE path

vault_payload(encrypted_sk, access_key, customer_id, vendor_id) ==
    [secret_key |-> encrypted_sk, access_key |-> access_key,
     customer_id |-> customer_id, vendor_id |-> vendor_id]

\* a write that stores nothing
write_secret_dropped(kv, path, data) == kv

\* VaultUtil.write_secret on the KV store kv
write_secret(kv, path, data) ==
    [p \in (DOMAIN kv) \cup {KvPath(path)} |->
        IF p = KvPath(path) THEN data ELSE kv[p]]

\* a write_secret that reports a failed write by returning, not by raising
write_swallowed(write_ok) == FALSE

\* VaultUtil.write_secret re-raises what the backend raised
write_raises(write_ok) == ~write_ok

\* VaultUtil.delete_secret on the KV store kv
delete_secret(kv, path) ==
    [p \in (DOMAIN kv) \ {KvPath(path)} |-> kv[p]]

\* VaultUtil.read_secret: whether the KV read finds a secret
CanRead(kv, path) == KvPath(path) \in DOMAIN kv

read_secret(kv, path) == kv[KvPath(path)]

\* ----------------------------------------------------------------- state
VARIABLES
    credentials,        \* credentials table: sequence of rows, id = index
    user_permissions,   \* user_permissions table: set of grants
    audit_logs,         \* audit_logs table, in insertion order
    vault_kv,           \* secret store: KV path -> payload
    vault,              \* the service's adapter: "disabled" (vault_util is
                        \* None), "unauthenticated" (is_connected() False), "connected"
    last,               \* the last request: operation, arguments, status
                        \* code, result and the I/O it performed, in order
    tasks,              \* the coroutines on the event loop (of
                        \* update_credential, or of get_pool): where each
                        \* is suspended and its locals
    db_connection       \* the module global _db_connection: whether the
                        \* DatabaseConnection exists, its _pool, and the
                        \* pools asyncmy.create_pool has made so far

vars ==
    <<credentials, user_permissions, audit_logs, vault_kv, vault, last, tasks,
      db_connection>>

\* only "self.vault_util" is tested, not is_connected()
is_connected_adapter_only == vault # "disabled"

\* VaultUtil.is_connected, guarded by "self.vault_util and"
is_connected == vault = "connected"

\* ------------------------------------------------------------ python call
\* Binding of a keyword-only call to a signature: every parameter without a
\* default must be passed and every keyword passed must be a parameter;
\* otherwise the call raises TypeError.
Binds(required, accepted, passed) ==
    /\ required \subseteq passed
    /\ passed \subseteq accepted

\* ------------------------------------------------------------------- SQL
\* three-valued comparison: col = %s is unknown when either side is NULL
SqlEq(a, b) ==
    IF a = NoId \/ b = NoId THEN "unknown"
    ELSE IF a = b THEN "true" ELSE "false"

SqlOr(x, y) ==
    IF x = "true" \/ y = "true" THEN "true"
    ELSE IF x = "unknown" \/ y = "unknown" THEN "unknown" ELSE "false"

SqlAnd(x, y) ==
    IF x = "false" \/ y = "false" THEN "false"
    ELSE IF x = "unknown" \/ y = "unknown" THEN "unknown" ELSE "true"

SqlIsNull(a) == IF a = NoId THEN "true" ELSE "false"

\* the WHERE clause without "user_id = %s"
PermissionWhere_any_user(g, user_id, customer_id, project_id) ==
    SqlAnd(SqlOr(SqlIsNull(g.customer_id), SqlEq(g.customer_id, customer_id)),
           SqlOr(SqlIsNull(g.project_id), SqlEq(g.project_id, project_id)))

\* the WHERE clause without "customer_id IS NULL OR"
PermissionWhere_no_wildcard(g, user_id, customer_id, project_id) ==
    SqlAnd(IF g.user_id = user_id THEN "true" ELSE "false",
           SqlAnd(SqlEq(g.customer_id, customer_id),
                  SqlOr(SqlIsNull(g.project_id),
                        SqlEq(g.project_id, project_id))))

\* the WHERE clause of UserPermissionDAO.check_permission for one grant
PermissionWhere(g, user_id, customer_id, project_id) ==
    SqlAnd(IF g.user_id = user_id THEN "true" ELSE "false",
           SqlAnd(SqlOr(SqlIsNull(g.customer_id),
                        SqlEq(g.customer_id, customer_id)),
                  SqlOr(SqlIsNull(g.project_id),
                        SqlEq(g.project_id, project_id))))

\* UserPermissionDAO.check_permission over the grants table
check_permission_in(grants, user_id, customer_id, project_id) ==
    Cardinality({g \in grants :
        PermissionWhere(g, user_id, customer_id, project_id) = "true"}) > 0

\* an evaluator that answers from the grants it loaded at start-up
check_permission_cached(user_id, customer_id, project_id) ==
    check_permission_in({[user_id |-> "u1", customer_id |-> 1,
                          project_id |-> NoId]},
                        user_id, customer_id, project_id)

check_permission(user_id, customer_id, project_id) ==
    check_permission_in(user_permissions, user_id, customer_id, project_id)

\* ------------------------------------------------------------- customers
\* a lookup that finds a customer under every id
customer_exists_any(customer_id) == TRUE

\* CustomerDAO.get_by_id / VendorDAO.get_by_id: the row exists
customer_exists(customer_id) == customer_id \in CustomerIds
vendor_exists(vendor_id) == vendor_id \in VendorIds

customer_name(customer_id) == <<"customer", Str(customer_id)>>
vendor_display_name(vendor_id) == <<"vendor", Str(vendor_id)>>

\* ----------------------------------------------------------- credentials
\* CredentialDAO.get_by_id: the row, if any
credential_found(credential_id) == credential_id \in DOMAIN credentials

\* signature of CredentialDAO.create and the keywords create_credential
\* passes to it
CreateRequired == {"customer_id", "project_id", "vendor_id", "access_key"}
CreateAccepted == CreateRequired \cup
    {"vault_path", "resource_user", "labels", "status"}
CreateKeywords == {"customer_id", "vendor_id", "access_key", "vault_path",
                   "resource_user", "labels", "status"}
CredentialDAO_create_binds ==
    Binds(CreateRequired, CreateAccepted, CreateKeywords)

\* the row CredentialDAO.create inserts (AUTO_INCREMENT id)
CredentialDAO_create(table, customer_id, project_id, vendor_id, access_key, vault_path, resource_user, labels, status) ==
    Append(table,
           [id |-> Len(table) + 1, customer_id |-> customer_id,
            project_id |-> project_id, vendor_id |-> vendor_id,
            access_key |-> access_key, vault_path |-> vault_path,
            resource_user |-> resource_user, labels |-> labels,
            status |-> status])

\* signature of CredentialDAO.update and the keywords update_credential
\* passes to it
UpdateRequired == {"credential_id"}
UpdateAccepted == {"credential_id", "resource_user", "labels", "status"}
UpdateKeywords == {"credential_id", "access_key", "vault_path",
                   "resource_user", "labels", "status"}
\* a DAO that takes any keyword (**kwargs) and ignores those it does not
\* know
CredentialDAO_update_binds_kwargs ==
    Binds(UpdateRequired, UpdateAccepted \cup UpdateKeywords, UpdateKeywords)

CredentialDAO_update_binds ==
    Binds(UpdateRequired, UpdateAccepted, UpdateKeywords)

\* the row after UPDATE credentials SET ... of CredentialDAO.update: a
\* column is set only when its argument is not None
CredentialDAO_update_row(row, resource_user, labels, status) ==
    [row EXCEPT
        !.resource_user = IF resource_user # None THEN resource_user ELSE @,
        !.labels = IF labels # None THEN labels ELSE @,
        !.status = IF status # "None" THEN status ELSE @]

\* a delete that also clears the row's pointer into the secret store
CredentialDAO_delete_purge(table, credential_id) ==
    [table EXCEPT ![credential_id].status = "deleted",
                  ![credential_id].vault_path = None]

\* a delete that writes the row anew (REPLACE INTO credentials (id, status)):
\* the other columns fall back to their defaults
CredentialDAO_delete_replace(table, credential_id) ==
    [table EXCEPT ![credential_id] =
        [id |-> credential_id, customer_id |-> NoId, project_id |-> NoId,
         vendor_id |-> NoId, access_key |-> <<>>, vault_path |-> None,
         resource_user |-> None, labels |-> None, status |-> "deleted"]]

\* CredentialDAO.delete: UPDATE credentials SET status = 'deleted'
CredentialDAO_delete(table, credential_id) ==
    [table EXCEPT ![credential_id].status = "deleted"]

\* cursor.rowcount of an UPDATE: the rows whose values changed
RowChanged(old, new) == old # new

\* ----------------------------------------------------------------- audit
\* an INSERT that leaves the credential_id column out
AuditLogDAO_create_no_credential(logs, user_id, action, resource_type, resource_id, customer_id, project_id, vendor_id, credential_id, details) ==
    Append(logs,
           [id |-> Len(logs) + 1, user_id |-> user_id, action |-> action,
            resource_type |-> resource_type, resource_id |-> resource_id,
            customer_id |-> customer_id, project_id |-> project_id,
            vendor_id |-> vendor_id, credential_id |-> NoId,
            details |-> details])

\* a REPLACE into a one-row table: the new entry takes the place of the log
AuditLogDAO_create_replace(logs, user_id, action, resource_type, resource_id, customer_id, project_id, vendor_id, credential_id, details) ==
    <<[id |-> 1, user_id |-> user_id, action |-> action,
       resource_type |-> resource_type, resource_id |-> resource_id,
       customer_id |-> customer_id, project_id |-> project_id,
       vendor_id |-> vendor_id, credential_id |-> credential_id,
       details |-> details]>>

\* AuditLogDAO.create: INSERT INTO audit_logs
AuditLogDAO_create(logs, user_id, action, resource_type, resource_id, customer_id, project_id, vendor_id, credential_id, details) ==
    Append(logs,
           [id |-> Len(logs) + 1, user_id |-> user_id, action |-> action,
            resource_type |-> resource_type, resource_id |-> resource_id,
            customer_id |-> customer_id, project_id |-> project_id,
            vendor_id |-> vendor_id, credential_id |-> credential_id,
            details |-> details])

\* the audit entry every credential operation writes
AuditCredential(logs, user_id, action, row, details) ==
    AuditLogDAO_create(logs, user_id, action, "credential", row.id,
                       row.customer_id, row.project_id, row.vendor_id,
                       row.id, details)

\* a response that echoes the secret_key of the request body
Outcome_echo_secret(op, user_id, credential_id, customer_id, vendor_id, access_key, secret_key, status, code, io, ret_access_key, ret_secret_key, ret_flag) ==
    [op |-> op, user_id |-> user_id, credential_id |-> credential_id,
     customer_id |-> customer_id, project_id |-> NoId,
     vendor_id |-> vendor_id,
     access_key |-> access_key, secret_key |-> secret_key,
     status |-> status, code |-> code, io |-> io,
     ret_access_key |-> ret_access_key, ret_secret_key |-> secret_key,
     ret_flag |-> ret_flag, ret_rows |-> <<>>, http |-> code]

\* ------------------------------------------------------------- settings
\* Settings: the Vault fields as the class declares them ("None" is None)
DefaultSettings ==
    [vault_enabled |-> FALSE, vault_addr |-> "None",
     vault_auth_method |-> "None", vault_token |-> "None",
     vault_role_id |-> "None", vault_secret_id |-> "None",
     vault_credential_path |-> "None"]

\* the default of mask_access_key's visible_chars
DefaultVisibleChars == 4

\* --------------------------------------------------------------- requests
\* what a request leaves in last
Outcome(op, user_id, credential_id, customer_id, vendor_id, access_key, secret_key, status, code, io, ret_access_key, ret_secret_key, ret_flag) ==
    [op |-> op, user_id |-> user_id, credential_id |-> credential_id,
     customer_id |-> customer_id, project_id |-> NoId,
     vendor_id |-> vendor_id,
     access_key |-> access_key, secret_key |-> secret_key,
     status |-> status, code |-> code, io |-> io,
     ret_access_key |-> ret_access_key, ret_secret_key |-> ret_secret_key,
     ret_flag |-> ret_flag,
     \* the items of a list response
     ret_rows |-> <<>>,
     \* the status the router answers with: an HTTPException passes through
     http |-> code,
     \* the visible_chars of a mask_access_key call
     visible_chars |-> DefaultVisibleChars,
     \* the token encrypt returned, which decrypt is given
     ciphertext |-> <<>>,
     \* the settings a construction of the service reads
     settings |-> DefaultSettings]

\* the audit table is bounded: no request is served once it is full
Budget == Len(audit_logs) < MaxAudit

\* ------------------------------------------------------------------ Init
\* the provisioned credentials: (customer_id, project_id) of row 1 and row 2;
\* both under vendor 1 with access key AK1 and secret SK1
SeedScopes == <<<<1, 1>>, <<2, NoId>>>>
SeedAccessKey == AK1
SeedSecretKey == <<"SK1">>

SeedRow(i, status) ==
    [id |-> i, customer_id |-> SeedScopes[i][1],
     project_id |-> SeedScopes[i][2], vendor_id |-> 1,
     access_key |-> SeedAccessKey,
     vault_path |-> VaultPath(SeedScopes[i][1], 1, SeedAccessKey),
     resource_user |-> None, labels |-> None, status |-> status]

SeedKv ==
    [p \in {KvPath(VaultPath(SeedScopes[i][1], 1, SeedAccessKey)) :
                i \in DOMAIN SeedScopes} |->
        vault_payload(encrypt(SeedSecretKey, "iv1"), SeedAccessKey,
                      CHOOSE c \in CustomerIds :
                          p = KvPath(VaultPath(c, 1, SeedAccessKey)),
                      1)]

Grant(user_id, customer_id, project_id) ==
    [user_id |-> user_id, customer_id |-> customer_id,
     project_id |-> project_id]

\* u1 holds a grant on customer 1 (any project); u2 holds none
SeedGrants == {Grant("u1", 1, NoId)}

\* the coroutines that can be in flight at once
Tasks == {1, 2}

\* "credential" before get_by_id has answered
NoRow ==
    [id |-> NoId, customer_id |-> NoId, project_id |-> NoId,
     vendor_id |-> NoId, access_key |-> None, vault_path |-> None,
     resource_user |-> None, labels |-> None, status |-> "None"]

\* a coroutine that is not running a request
IdleTask ==
    [pc |-> "idle", credential_id |-> NoId, user_id |-> "u1",
     access_key |-> None, secret_key |-> None, status |-> "None",
     credential |-> NoRow]

NoTasks == [t \in Tasks |-> IdleTask]

\* self._pool before any pool exists (Python None)
NoPool == 0

\* the process before the first request: _db_connection is None
NoConnection == [made |-> FALSE, pool |-> NoPool, pools |-> 0]

NoRequest ==
    Outcome("none", "u1", NoId, NoId, NoId, None, None, "None", 0, <<>>,
            None, None, FALSE)

Init ==
    /\ credentials \in
          {[i \in DOMAIN SeedScopes |-> SeedRow(i, st[i])] :
              st \in [DOMAIN SeedScopes -> {"active", "disabled"}]}
    /\ user_permissions = SeedGrants
    /\ audit_logs = <<>>
    /\ tasks = NoTasks
    /\ db_connection = NoConnection
    /\ vault_kv = SeedKv
    /\ vault \in {"disabled", "connected"}
    /\ last = NoRequest

\* --------------------------------------------------------- create_credential
\* a create that also asks the permission evaluator about the customer
create_refusal_gated(user_id, customer_id, vendor_id) ==
    IF ~customer_exists(customer_id) \/ ~vendor_exists(vendor_id) THEN 404
    ELSE IF ~check_permission(user_id, customer_id, NoId) THEN 403
    ELSE IF ~is_connected THEN 503
    ELSE 0

\* the checks of create_credential before it touches the store: the status
\* of the HTTPException they raise, 0 when they pass
create_refusal(user_id, customer_id, vendor_id) ==
    IF ~customer_exists(customer_id) \/ ~vendor_exists(vendor_id) THEN 404
    ELSE IF ~is_connected THEN 503
    ELSE 0

\* what create_credential answers and leaves behind for a request against
\* the tables and the store as they are: [last, credentials, audit_logs,
\* vault_kv]; write_ok: the KV write does not raise
create_response(user_id, customer_id, vendor_id, access_key, secret_key, status, iv, write_ok) ==
    LET vault_path == VaultPath(customer_id, vendor_id, access_key)
        encrypted_sk == encrypt(secret_key, iv)
        payload == vault_payload(encrypted_sk, access_key, customer_id,
                                 vendor_id)
        row == [id |-> Len(credentials) + 1, customer_id |-> customer_id,
                project_id |-> NoId, vendor_id |-> vendor_id]
        stored == IF write_ok
                  THEN write_secret(vault_kv, vault_path, payload)
                  ELSE vault_kv
        wio == IF write_ok THEN "vault_write" ELSE "vault_write_error"
        refusal == create_refusal(user_id, customer_id, vendor_id)
        Done(code, io, ret) ==
            Outcome("create_credential", user_id,
                    IF code = 200 THEN row.id ELSE NoId, customer_id,
                    vendor_id, access_key, secret_key, status, code,
                    io, ret, None, FALSE)
        Left(l, table, logs, kv) ==
            [last |-> l, credentials |-> table, audit_logs |-> logs,
             vault_kv |-> kv]
    IN
    IF refusal # 0
    THEN Left(Done(refusal, <<>>, None), credentials, audit_logs, vault_kv)
    ELSE IF write_raises(write_ok)
    THEN Left(Done(500, <<"vault_write_error">>, None), credentials,
              audit_logs, vault_kv)
    ELSE IF ~CredentialDAO_create_binds
    THEN \* TypeError from the call: not a ValueError, so not caught
         Left(Done(500, <<wio, "db_insert_error">>, None), credentials,
              audit_logs, stored)
    ELSE Left(Done(200, <<wio, "db_insert", "audit">>, access_key),
              CredentialDAO_create(credentials, customer_id, NoId,
                                   vendor_id, access_key, vault_path,
                                   None, None, status),
              AuditCredential(audit_logs, user_id, "create_credential",
                  row,
                  <<"Created credential for customer">>
                      \o customer_name(customer_id)
                      \o <<"project no-project, vendor">>
                      \o vendor_display_name(vendor_id)),
              stored)

\* CredentialService.create_credential
create_credential(user_id, customer_id, vendor_id, access_key, secret_key, status, iv, write_ok) ==
    LET r == create_response(user_id, customer_id, vendor_id, access_key,
                             secret_key, status, iv, write_ok)
    IN
    /\ Budget
    /\ UNCHANGED <<user_permissions, tasks, db_connection, vault>>
    /\ last' = r.last
    /\ credentials' = r.credentials
    /\ audit_logs' = r.audit_logs
    /\ vault_kv' = r.vault_kv

\* a status test that refuses deleted credentials only
is_active_not_deleted(row) == row.status # "deleted"

\* the only status the two retrievals accept
is_active(row) == row.status = "active"

\* Python truthiness of an Optional[str]
Truthy(text) == text # None /\ text # <<>>

\* ---------------------------------------------------- get_credential_context
\* CredentialService.get_credential_context
get_credential_context(credential_id, user_id) ==
    LET row == credentials[credential_id]
        Done(code, io, ret) ==
            last' = Outcome("get_credential_context", user_id, credential_id,
                            NoId, NoId, None, None, "None", code, io, ret,
                            None, FALSE)
    IN
    /\ Budget
    /\ UNCHANGED <<credentials, user_permissions, tasks, db_connection, vault_kv, vault>>
    /\ IF ~credential_found(credential_id)
       THEN Done(404, <<>>, None) /\ UNCHANGED audit_logs
       ELSE IF ~is_active(row)
       THEN Done(400, <<>>, None) /\ UNCHANGED audit_logs
       ELSE IF ~check_permission(user_id, row.customer_id, row.project_id)
       THEN Done(403, <<>>, None) /\ UNCHANGED audit_logs
       ELSE IF ~customer_exists(row.customer_id)
               \/ ~vendor_exists(row.vendor_id)
       THEN Done(500, <<>>, None) /\ UNCHANGED audit_logs
       ELSE /\ audit_logs' =
                  AuditCredential(audit_logs, user_id, "use_credential", row,
                      <<"User", user_id, "accessed credential context">>)
            /\ Done(200, <<"audit">>, row.access_key)

\* ----------------------------------------------- get_credential_for_api_call
\* the response of get_credential_for_api_call for credential_id and
\* user_id against the tables and the KV store: [code, io, access_key,
\* secret_key]
ApiResponse(code, io, access_key, secret_key) ==
    [code |-> code, io |-> io, access_key |-> access_key,
     secret_key |-> secret_key]

api_call_response(table, grants, kv, connected, credential_id, user_id, read_ok) ==
    LET row == table[credential_id]
        vault_data == read_secret(kv, row.vault_path)
        encrypted_sk == vault_data.secret_key
        decrypted == decrypt(encrypted_sk)
        secret_key == IF encrypted_sk # <<>> THEN decrypted.value ELSE None
    IN
    IF credential_id \notin DOMAIN table
    THEN ApiResponse(404, <<>>, None, None)
    ELSE IF ~is_active(row)
    THEN ApiResponse(400, <<>>, None, None)
    ELSE IF ~check_permission_in(grants, user_id, row.customer_id,
                                 row.project_id)
    THEN ApiResponse(403, <<>>, None, None)
    ELSE IF ~(Truthy(row.vault_path) /\ connected)
    THEN ApiResponse(503, <<>>, None, None)
    ELSE IF ~read_ok \/ ~CanRead(kv, row.vault_path)
    THEN ApiResponse(500, <<"vault_read_error">>, None, None)
    ELSE IF encrypted_sk # <<>> /\ ~decrypted.ok
    THEN ApiResponse(500, <<"vault_read">>, None, None)
    ELSE ApiResponse(200, <<"vault_read", "audit">>, row.access_key,
                     secret_key)

\* CredentialService.get_credential_for_api_call; read_ok: the KV read does
\* not raise for a reason of the backend's
get_credential_for_api_call(credential_id, user_id, read_ok) ==
    LET row == credentials[credential_id]
        r == api_call_response(credentials, user_permissions, vault_kv,
                               is_connected, credential_id, user_id, read_ok)
    IN
    /\ Budget
    /\ UNCHANGED <<credentials, user_permissions, tasks, db_connection, vault_kv, vault>>
    /\ last' = Outcome("get_credential_for_api_call", user_id,
                       credential_id, NoId, NoId, None, None, "None",
                       r.code, r.io, r.access_key, r.secret_key, FALSE)
    /\ IF r.code = 200
       THEN audit_logs' =
                AuditCredential(audit_logs, user_id,
                    "retrieve_credential_for_api", row,
                    <<"User", user_id,
                      "retrieved credential for third-party API call">>)
       ELSE UNCHANGED audit_logs

\* --------------------------------------------------------- update_credential
\* the names update_credential lists in the audit details
update_details(access_key, secret_key, resource_user, labels, status) ==
    (IF Truthy(access_key) THEN <<"access_key">> ELSE <<>>)
    \o (IF Truthy(secret_key) THEN <<"secret_key">> ELSE <<>>)
    \o (IF resource_user # None THEN <<"resource_user">> ELSE <<>>)
    \o (IF labels # None THEN <<"labels">> ELSE <<>>)
    \o (IF status # "None" THEN <<"status">> ELSE <<>>)

\* CredentialService.update_credential from "Handle SK update" on, for the
\* row get_by_id returned; write_ok / delete_ok: the KV write / the KV delete
\* does not raise
update_from_vault(row, credential_id, user_id, access_key, secret_key, resource_user, labels, status, iv, write_ok, delete_ok) ==
    LET new_access_key ==
            IF Truthy(access_key) THEN access_key ELSE row.access_key
        new_vault_path ==
            IF Truthy(secret_key)
            THEN VaultPath(row.customer_id, row.vendor_id, new_access_key)
            ELSE None
        payload == vault_payload(encrypt(secret_key, iv), new_access_key,
                                 row.customer_id, row.vendor_id)
        written == IF write_ok
                   THEN write_secret(vault_kv, new_vault_path, payload)
                   ELSE vault_kv
        wio == IF write_ok THEN "vault_write" ELSE "vault_write_error"
        delete_old == /\ Truthy(access_key)
                      /\ Truthy(row.vault_path)
                      /\ row.vault_path # new_vault_path
        \* the KV store and the I/O after the "Handle SK update" block
        kv_after ==
            IF ~Truthy(secret_key) THEN vault_kv
            ELSE IF delete_old /\ delete_ok
                 THEN delete_secret(written, row.vault_path)
                 ELSE written
        io_after ==
            IF ~Truthy(secret_key) THEN <<>>
            ELSE IF ~delete_old THEN <<wio>>
            ELSE IF delete_ok THEN <<wio, "vault_delete">>
            ELSE <<wio, "vault_delete_error">>
        \* the UPDATE applies to the row as it is in the table
        current == credentials[credential_id]
        updated == CredentialDAO_update_row(current, resource_user, labels,
                                            status)
        \* "if not updates": no UPDATE is sent and the row is returned
        no_updates == resource_user = None /\ labels = None
                      /\ status = "None"
        Done(code, io, ret) ==
            last' = Outcome("update_credential", user_id, credential_id,
                            NoId, NoId, access_key, secret_key, status, code,
                            io, ret, None, FALSE)
    IN
    /\ IF Truthy(secret_key) /\ ~is_connected
       THEN /\ Done(503, <<>>, None)
            /\ UNCHANGED <<credentials, audit_logs, vault_kv>>
       ELSE IF Truthy(secret_key) /\ write_raises(write_ok)
       THEN /\ Done(500, <<"vault_write_error">>, None)
            /\ UNCHANGED <<credentials, audit_logs, vault_kv>>
       ELSE IF ~CredentialDAO_update_binds
       THEN \* TypeError from the call
            /\ vault_kv' = kv_after
            /\ Done(500, Append(io_after, "db_update_error"), None)
            /\ UNCHANGED <<credentials, audit_logs>>
       ELSE IF ~no_updates /\ ~RowChanged(current, updated)
       THEN \* rowcount == 0: update returns None
            /\ vault_kv' = kv_after
            /\ Done(404, Append(io_after, "db_update"), None)
            /\ UNCHANGED <<credentials, audit_logs>>
       ELSE /\ vault_kv' = kv_after
            /\ credentials' = [credentials EXCEPT ![credential_id] = updated]
            /\ audit_logs' =
                  AuditCredential(audit_logs, user_id, "update_credential",
                      row,
                      <<"Updated credential fields:">>
                          \o update_details(access_key, secret_key,
                                            resource_user, labels, status))
            /\ Done(200, io_after \o <<"db_update", "audit">>,
                    updated.access_key)

\* CredentialService.update_credential, run without interruption
update_credential(credential_id, user_id, access_key, secret_key, resource_user, labels, status, iv, write_ok, delete_ok) ==
    LET row == credentials[credential_id]
        Refused(code) ==
            last' = Outcome("update_credential", user_id, credential_id,
                            NoId, NoId, access_key, secret_key, status, code,
                            <<>>, None, None, FALSE)
    IN
    /\ Budget
    /\ UNCHANGED <<user_permissions, tasks, db_connection, vault>>
    /\ IF ~credential_found(credential_id)
       THEN /\ Refused(404)
            /\ UNCHANGED <<credentials, audit_logs, vault_kv>>
       ELSE IF ~check_permission(user_id, row.customer_id, row.project_id)
       THEN /\ Refused(403)
            /\ UNCHANGED <<credentials, audit_logs, vault_kv>>
       ELSE update_from_vault(row, credential_id, user_id, access_key,
                              secret_key, resource_user, labels, status, iv,
                              write_ok, delete_ok)

\* --------------------------------------------------------- delete_credential
\* status_code of the DELETE route
HTTP_204_NO_CONTENT == 204

\* CredentialService.delete_credential; audit_ok: the INSERT of the audit
\* entry does not raise
delete_credential(credential_id, user_id, audit_ok) ==
    LET row == credentials[credential_id]
        after == CredentialDAO_delete(credentials, credential_id)
        deleted == RowChanged(row, after[credential_id])
        Done(code, io, flag) ==
            last' = Outcome("delete_credential", user_id, credential_id,
                            NoId, NoId, None, None, "None", code, io,
                            None, None, flag)
        \* the router drops the service's return value and answers 204
        Returned(io, flag) ==
            last' = [Outcome("delete_credential", user_id, credential_id,
                             NoId, NoId, None, None, "None", 200, io,
                             None, None, flag)
                        EXCEPT !.http = HTTP_204_NO_CONTENT]
    IN
    /\ Budget
    /\ UNCHANGED <<user_permissions, tasks, db_connection, vault_kv, vault>>
    /\ IF ~credential_found(credential_id)
       THEN /\ Done(404, <<>>, FALSE)
            /\ UNCHANGED <<credentials, audit_logs>>
       ELSE IF ~check_permission(user_id, row.customer_id, row.project_id)
       THEN /\ Done(403, <<>>, FALSE)
            /\ UNCHANGED <<credentials, audit_logs>>
       ELSE IF ~deleted
       THEN /\ Returned(<<"db_delete">>, FALSE)
            /\ UNCHANGED <<credentials, audit_logs>>
       ELSE IF ~audit_ok
       THEN \* the soft delete is committed; audit_log_dao.create raises and
            \* nothing catches it
            /\ credentials' = after
            /\ Done(500, <<"db_delete", "audit_error">>, FALSE)
            /\ UNCHANGED audit_logs
       ELSE /\ credentials' = after
            /\ audit_logs' =
                  AuditCredential(audit_logs, user_id, "delete_credential",
                                  row, <<"Deleted credential">>)
            /\ Returned(<<"db_delete", "audit">>, TRUE)

\* ----------------------------------------------------------- list_credentials
Stars(n) == [i \in 1..n |-> "*"]

\* a mask that tests the length with "<"
mask_access_key_lt(access_key, visible_chars) ==
    IF ~Truthy(access_key) THEN <<>>
    ELSE IF Len(access_key) < visible_chars THEN Stars(Len(access_key))
    ELSE SubSeq(access_key, 1, visible_chars)
            \o Stars(Len(access_key) - visible_chars)

\* CryptoUtil.mask_access_key
mask_access_key(access_key, visible_chars) ==
    IF ~Truthy(access_key) THEN <<>>
    ELSE IF Len(access_key) <= visible_chars THEN Stars(Len(access_key))
    ELSE SubSeq(access_key, 1, visible_chars)
            \o Stars(Len(access_key) - visible_chars)

\* the FROM ... JOIN ... WHERE of CredentialDAO.list_by_user_permissions for
\* one credentials row: an INNER JOIN keeps the row only if the joined row
\* exists, and "c.project_id = p.id" is never true of a NULL project_id
ListWhere(row, grants, user_id, customer_id, project_id) ==
    /\ row.customer_id \in CustomerIds
    /\ row.project_id \in ProjectIds
    /\ row.vendor_id \in VendorIds
    /\ row.status # "deleted"
    /\ \E up \in grants :
          PermissionWhere(up, user_id, row.customer_id, row.project_id)
              = "true"
    /\ (customer_id # NoId => row.customer_id = customer_id)
    /\ (project_id # NoId => row.project_id = project_id)

\* the selected rows among table[1..n], newest first
RECURSIVE SelectDesc(_, _, _, _, _, _)
SelectDesc(table, n, grants, user_id, customer_id, project_id) ==
    IF n = 0 THEN <<>>
    ELSE (IF ListWhere(table[n], grants, user_id, customer_id, project_id)
          THEN <<table[n]>> ELSE <<>>)
         \o SelectDesc(table, n - 1, grants, user_id, customer_id,
                       project_id)

\* LIMIT limit OFFSET skip
Paginate(rows, skip, limit) ==
    SubSeq(rows, skip + 1,
           IF Len(rows) < skip + limit THEN Len(rows) ELSE skip + limit)

\* CredentialDAO.list_by_user_permissions
list_by_user_permissions(table, grants, user_id, customer_id, project_id, skip, limit) ==
    Paginate(SelectDesc(table, Len(table), grants, user_id, customer_id,
                        project_id),
             skip, limit)

\* CredentialService.list_credentials
list_credentials(user_id, customer_id, project_id, page, page_size) ==
    LET rows == list_by_user_permissions(credentials, user_permissions,
                    user_id, customer_id, project_id,
                    (page - 1) * page_size, page_size)
        items == [i \in 1..Len(rows) |->
                     [rows[i] EXCEPT
                         !.access_key = mask_access_key(@, 4)]]
    IN
    /\ Budget
    /\ last' = [Outcome("list_credentials", user_id, NoId, customer_id, NoId,
                        None, None, "None", 200, <<"db_select">>, None, None,
                        FALSE)
                   EXCEPT !.project_id = project_id, !.ret_rows = items]
    /\ UNCHANGED <<credentials, user_permissions, tasks, db_connection, audit_logs, vault_kv, vault>>

\* the vault client's session ends or is re-established between requests
vault_change ==
    /\ vault' \in {"disabled", "unauthenticated", "connected"} \ {vault}
    /\ UNCHANGED <<credentials, user_permissions, tasks, db_connection, audit_logs, vault_kv, last>>

\* ------------------------------------------------------------------ Next
\* the ids requests name: the provisioned rows and one that does not exist
CredentialIds == 1..(Len(SeedScopes) + 1)

\* the scopes a request can name, None included
ScopeCustomers == {NoId} \cup CustomerIds
ScopeProjects == {NoId} \cup ProjectIds

\* page and page_size of a list request
DefaultPage == 1
DefaultPageSize == 20

\* the create requests: (customer_id, vendor_id, access_key, secret_key,
\* status, write_ok); for customer 1 and vendor 1 any keys, with the store
\* write raising or not, and one request that asks for a disabled
\* credential; one request names a missing customer, one a missing vendor
CreateRequests ==
    {<<1, 1, ak, sk, "active", wok>> :
        ak \in AccessKeys, sk \in SecretKeys, wok \in BOOLEAN}
    \cup {<<1, 1, AK1, <<"SK1">>, "disabled", TRUE>>,
          <<MissingId, 1, AK1, <<"SK1">>, "active", TRUE>>,
          <<1, MissingId, AK1, <<"SK1">>, "active", TRUE>>}

\* the partial updates requests carry: (access_key, secret_key, status)
Patches ==
    {<<None, None, "None">>,
     <<None, None, "active">>,
     <<None, None, "disabled">>,
     <<AK2, None, "None">>,
     <<None, <<"SK2">>, "None">>,
     <<AK1, <<"SK2">>, "None">>,
     <<AK2, <<"SK2">>, "active">>}

\* the KV faults of one request: none, the write raises, the delete raises
KvFaults == {<<TRUE, TRUE>>, <<FALSE, TRUE>>, <<TRUE, FALSE>>}

Next ==
    \/ \E u \in Users, r \in CreateRequests :
          create_credential(u, r[1], r[2], r[3], r[4], r[5], "iv1", r[6])
    \/ \E id \in CredentialIds, u \in Users :
          get_credential_context(id, u)
    \/ \E id \in CredentialIds, u \in Users, rok \in BOOLEAN :
          get_credential_for_api_call(id, u, rok)
    \/ \E id \in CredentialIds, u \in Users, p \in Patches, f \in KvFaults :
          update_credential(id, u, p[1], p[2], None, None, p[3], "iv1",
                            f[1], f[2])
    \/ \E id \in CredentialIds, u \in Users :
          delete_credential(id, u, TRUE)
    \/ \E u \in Users, c \in ScopeCustomers, p \in ScopeProjects :
          list_credentials(u, c, p, DefaultPage, DefaultPageSize)
    \/ vault_change

Spec == Init /\ [][Next]_vars

\* ----------------------------------------------------------- SpecAudit
\* The three mutating operations with an audit_logs table whose INSERT can
\* fail.
NextAudit ==
    \/ \E u \in Users, r \in CreateRequests :
          create_credential(u, r[1], r[2], r[3], r[4], r[5], "iv1", r[6])
    \/ \E id \in CredentialIds, u \in Users, p \in Patches, f \in KvFaults :
          update_credential(id, u, p[1], p[2], None, None, p[3], "iv1",
                            f[1], f[2])
    \/ \E id \in CredentialIds, u \in Users, audit_ok \in BOOLEAN :
          delete_credential(id, u, audit_ok)

SpecAudit == Init /\ [][NextAudit]_vars

\* ------------------------------------------------------------ SpecRead
\* The retrieval for an external call against a secret store whose content
\* was not written by the service alone: under each provisioned path there
\* is no secret, the token the service wrote, a text that is not base64, a
\* token whose signature does not verify, or an empty text.
StoredTokens ==
    {encrypt(SeedSecretKey, "iv1"), <<"garbage">>,
     <<"b64", "tampered", "iv1", "SK1">>, <<>>}

InitRead ==
    /\ credentials = [i \in DOMAIN SeedScopes |-> SeedRow(i, "active")]
    /\ user_permissions = SeedGrants
    /\ audit_logs = <<>>
    /\ tasks = NoTasks
    /\ db_connection = NoConnection
    /\ vault_kv \in
          UNION {[paths -> {[SeedKv[p] EXCEPT !.secret_key = tok] :
                              p \in paths, tok \in StoredTokens}] :
                    paths \in SUBSET DOMAIN SeedKv}
    /\ vault \in {"unauthenticated", "connected"}
    /\ last = NoRequest

NextRead ==
    \E id \in CredentialIds, u \in Users, rok \in BOOLEAN :
        get_credential_for_api_call(id, u, rok)

SpecRead == InitRead /\ [][NextRead]_vars

\* ---------------------------------------------------------- SpecGrants
\* The permission-gated operations against a user_permissions table that
\* changes between requests: grants are inserted and deleted.

\* the grants that are inserted and deleted
GrantChoices ==
    {Grant("u1", 1, NoId), Grant("u2", 2, NoId), Grant("u2", NoId, NoId)}

\* UserPermissionDAO.create: INSERT INTO user_permissions (the table holds
\* one row per user and scope here)
UserPermissionDAO_create(user_id, customer_id, project_id) ==
    /\ Grant(user_id, customer_id, project_id) \notin user_permissions
    /\ user_permissions' =
          user_permissions \cup {Grant(user_id, customer_id, project_id)}
    /\ last' = [Outcome("create_permission", user_id, NoId, customer_id,
                        NoId, None, None, "None", 200, <<"db_insert">>, None,
                        None, FALSE)
                   EXCEPT !.project_id = project_id]
    /\ UNCHANGED <<credentials, audit_logs, tasks, db_connection, vault_kv, vault>>

\* UserPermissionDAO.delete: DELETE FROM user_permissions WHERE id = %s, for
\* the id of the row g
UserPermissionDAO_delete(g) ==
    /\ g \in user_permissions
    /\ user_permissions' = user_permissions \ {g}
    /\ last' = [Outcome("delete_permission", g.user_id, NoId, g.customer_id,
                        NoId, None, None, "None", 200, <<"db_delete">>, None,
                        None, TRUE)
                   EXCEPT !.project_id = g.project_id]
    /\ UNCHANGED <<credentials, audit_logs, tasks, db_connection, vault_kv, vault>>

NextGrants ==
    \/ \E g \in GrantChoices :
          UserPermissionDAO_create(g.user_id, g.customer_id, g.project_id)
    \/ \E g \in GrantChoices : UserPermissionDAO_delete(g)
    \/ \E id \in CredentialIds, u \in Users :
          get_credential_context(id, u)
    \/ \E id \in CredentialIds, u \in Users :
          get_credential_for_api_call(id, u, TRUE)
    \/ \E id \in CredentialIds, u \in Users :
          update_credential(id, u, AK2, None, None, None, "None", "iv1",
                            TRUE, TRUE)
    \/ \E id \in CredentialIds, u \in Users :
          delete_credential(id, u, TRUE)

InitGrants ==
    /\ credentials = [i \in DOMAIN SeedScopes |-> SeedRow(i, "active")]
    /\ user_permissions = SeedGrants
    /\ audit_logs = <<>>
    /\ tasks = NoTasks
    /\ db_connection = NoConnection
    /\ vault_kv = SeedKv
    /\ vault = "connected"
    /\ last = NoRequest

SpecGrants == InitGrants /\ [][NextGrants]_vars

\* ------------------------------------------------------------ SpecPerm
\* The permission evaluator on its own: the grants table is drawn from the
\* grants the user_permissions table can hold (customer_id and project_id
\* are nullable columns), and requests name any scope, None included.
MaxGrants == 2

GrantUniverse ==
    {Grant(u, c, p) : u \in Users, c \in ScopeCustomers, p \in ScopeProjects}

InitPerm ==
    /\ credentials = [i \in DOMAIN SeedScopes |-> SeedRow(i, "active")]
    /\ user_permissions \in
          {gs \in SUBSET GrantUniverse : Cardinality(gs) <= MaxGrants}
    /\ audit_logs = <<>>
    /\ tasks = NoTasks
    /\ db_connection = NoConnection
    /\ vault_kv = SeedKv
    /\ vault = "connected"
    /\ last = NoRequest

\* PermissionService.check_permission: the DAO's answer, unchanged
PermissionService_check_permission(user_id, customer_id, project_id) ==
    /\ last' = [Outcome("check_permission", user_id, NoId, customer_id, NoId,
                        None, None, "None", 200, <<"db_select">>, None, None,
                        check_permission(user_id, customer_id, project_id))
                   EXCEPT !.project_id = project_id]
    /\ UNCHANGED <<credentials, user_permissions, tasks, db_connection, audit_logs, vault_kv, vault>>

NextPerm ==
    \E u \in Users, c \in ScopeCustomers, p \in ScopeProjects :
        PermissionService_check_permission(u, c, p)

SpecPerm == InitPerm /\ [][NextPerm]_vars

\* ------------------------------------------------------------ SpecList
\* The listing on its own: it only reads, so the tables are drawn from the
\* rows and grants they can hold (each provisioned row in any status, any
\* grants table of up to MaxGrants rows) and requests name any user and any
\* filter.
InitList ==
    /\ credentials \in
          {[i \in DOMAIN SeedScopes |-> SeedRow(i, st[i])] :
              st \in [DOMAIN SeedScopes -> Statuses]}
    /\ user_permissions \in
          {gs \in SUBSET GrantUniverse : Cardinality(gs) <= MaxGrants}
    /\ audit_logs = <<>>
    /\ tasks = NoTasks
    /\ db_connection = NoConnection
    /\ vault_kv = SeedKv
    /\ vault = "connected"
    /\ last = NoRequest

NextList ==
    \E u \in Users, c \in ScopeCustomers, p \in ScopeProjects :
        list_credentials(u, c, p, DefaultPage, DefaultPageSize)

SpecList == InitList /\ [][NextList]_vars

\* ------------------------------------------------------------ SpecMask
\* CryptoUtil.mask_access_key on its own: a key and a visible count are
\* drawn, then the function is applied to them.
MaxKeyLen == 4
MaxVisible == 5

KeyChars == {"A", "B"}
SHORT == <<"S", "H", "O", "R", "T">>

\* every key over KeyChars of up to MaxKeyLen characters, "" included, and
\* the key of test_mask_access_key
MaskKeys == UNION {[1..n -> KeyChars] : n \in 0..MaxKeyLen} \cup {SHORT}

InitMask ==
    /\ credentials = [i \in DOMAIN SeedScopes |-> SeedRow(i, "active")]
    /\ user_permissions = SeedGrants
    /\ audit_logs = <<>>
    /\ tasks = NoTasks
    /\ db_connection = NoConnection
    /\ vault_kv = SeedKv
    /\ vault = "connected"
    /\ last \in {[NoRequest EXCEPT !.access_key = k, !.visible_chars = v] :
                    k \in MaskKeys, v \in 0..MaxVisible}

CryptoUtil_mask_access_key ==
    /\ last.op = "none"
    /\ last' = [last EXCEPT
                   !.op = "mask_access_key",
                   !.ret_access_key =
                       mask_access_key(last.access_key, last.visible_chars)]
    /\ UNCHANGED <<credentials, user_permissions, tasks, db_connection, audit_logs, vault_kv, vault>>

NextMask == CryptoUtil_mask_access_key

SpecMask == InitMask /\ [][NextMask]_vars

\* ---------------------------------------------------------- SpecCrypto
\* CryptoUtil.encrypt and CryptoUtil.decrypt on their own: a plaintext is
\* drawn, encrypted under a fresh IV, and the token is decrypted.
MaxTextLen == 3

TextAtoms == SecretAtoms \cup {"b64"}
Plaintexts == UNION {[1..n -> TextAtoms] : n \in 0..MaxTextLen}

InitCrypto ==
    /\ credentials = [i \in DOMAIN SeedScopes |-> SeedRow(i, "active")]
    /\ user_permissions = SeedGrants
    /\ audit_logs = <<>>
    /\ tasks = NoTasks
    /\ db_connection = NoConnection
    /\ vault_kv = SeedKv
    /\ vault = "connected"
    /\ last \in {[NoRequest EXCEPT !.secret_key = s] : s \in Plaintexts}

CryptoUtil_encrypt(iv) ==
    /\ last.op = "none"
    /\ last' = [last EXCEPT !.op = "encrypt",
                            !.ciphertext = encrypt(last.secret_key, iv)]
    /\ UNCHANGED <<credentials, user_permissions, tasks, db_connection, audit_logs, vault_kv, vault>>

CryptoUtil_decrypt ==
    /\ last.op = "encrypt"
    /\ last' = [last EXCEPT
                   !.op = "decrypt",
                   !.code = IF decrypt(last.ciphertext).ok THEN 200 ELSE 500,
                   !.ret_secret_key = decrypt(last.ciphertext).value]
    /\ UNCHANGED <<credentials, user_permissions, tasks, db_connection, audit_logs, vault_kv, vault>>

NextCrypto ==
    \/ \E iv \in Nonces : CryptoUtil_encrypt(iv)
    \/ CryptoUtil_decrypt

SpecCrypto == InitCrypto /\ [][NextCrypto]_vars

\* ----------------------------------------------------------- SpecVault
\* The construction of the service and of its Vault adapter: the settings
\* are drawn, then CredentialService() runs against a Vault server that
\* accepts or refuses the AppRole login and the token.
AuthMethods == {"None", "token", "approle", "ldap"}

\* role_id and secret_id stand for the values after the *_file fallback
VaultSettings ==
    [vault_enabled : BOOLEAN, vault_addr : {"None", "http://vault:8200"},
     vault_auth_method : AuthMethods, vault_token : {"None", "s.token"},
     vault_role_id : {"None", "role"}, vault_secret_id : {"None", "secret"},
     vault_credential_path : {"None", "secret/credentials"}]

\* the auth method _connect settles on; "return" is "self.client = None;
\* return"
auth_method(settings) ==
    LET token == settings.vault_token # "None"
        ids == settings.vault_role_id # "None"
                  /\ settings.vault_secret_id # "None"
        m1 == IF settings.vault_auth_method = "None"
              THEN (IF token THEN "token"
                    ELSE IF ids THEN "approle" ELSE "return")
              ELSE settings.vault_auth_method
        m2 == IF m1 = "approle" /\ ~ids
              THEN (IF token THEN "token" ELSE "return")
              ELSE m1
    IN  IF m2 = "token" /\ ~token
        THEN (IF ids THEN "approle" ELSE "return")
        ELSE m2

\* VaultUtil._connect: "connected", "unauthenticated" (client None, nothing
\* raised) or the exception its except clause raises
VaultUtil_connect(settings, login_ok, authenticated) ==
    IF settings.vault_addr = "None" THEN "ConnectionError"
    ELSE IF auth_method(settings) = "return" THEN "unauthenticated"
    ELSE IF auth_method(settings) = "approle"
         THEN (IF login_ok /\ authenticated THEN "connected"
               ELSE "ConnectionError")
    ELSE IF auth_method(settings) = "token"
         THEN (IF authenticated THEN "connected" ELSE "ConnectionError")
    ELSE "ConnectionError"

\* CredentialService.__init__, and VaultUtil.__init__ under it; an exception
\* leaves no service object, and the router answers 500
CredentialService_init(login_ok, authenticated) ==
    LET settings == last.settings
        connect == VaultUtil_connect(settings, login_ok, authenticated)
        raised ==
            IF ~settings.vault_enabled THEN "None"
            ELSE IF settings.vault_credential_path = "None" THEN "ValueError"
            ELSE IF connect = "ConnectionError" THEN connect
            ELSE "None"
    IN  /\ last.op = "none"
        /\ vault' = IF ~settings.vault_enabled \/ raised = "ValueError"
                    THEN "disabled"
                    ELSE IF raised = "ConnectionError" THEN "unauthenticated"
                    ELSE connect
        /\ last' = [last EXCEPT
                       !.op = "CredentialService",
                       !.code = IF raised = "None" THEN 200 ELSE 500,
                       !.http = IF raised = "None" THEN 200 ELSE 500,
                       !.io = IF raised = "None" THEN <<>> ELSE <<raised>>]
        /\ UNCHANGED <<credentials, user_permissions, tasks, db_connection, audit_logs, vault_kv>>

InitVault ==
    /\ credentials = [i \in DOMAIN SeedScopes |-> SeedRow(i, "active")]
    /\ user_permissions = SeedGrants
    /\ audit_logs = <<>>
    /\ tasks = NoTasks
    /\ db_connection = NoConnection
    /\ vault_kv = SeedKv
    /\ vault = "disabled"
    /\ last \in {[NoRequest EXCEPT !.settings = st] : st \in VaultSettings}

NextVault ==
    \E login_ok \in BOOLEAN, authenticated \in BOOLEAN :
        CredentialService_init(login_ok, authenticated)

SpecVault == InitVault /\ [][NextVault]_vars

\* ------------------------------------------------------------ SpecRace
\* update_credential as the event loop runs it: a coroutine is suspended at
\* "await credential_dao.get_by_id" and at "await
\* user_permission_dao.check_permission", and other coroutines run in
\* between. The Vault calls are synchronous, and the TypeError of the
\* credential_dao.update call is raised before anything is awaited, so the
\* handler runs from the permission answer to its end in one piece.

\* the updates requested: (credential_id, user_id, access_key, secret_key)
RaceRequests ==
    {<<id, u, ak, sk>> :
        id \in {1, Len(SeedScopes) + 1}, u \in Users,
        ak \in {None, AK2}, sk \in SecretKeys}

InitRace ==
    /\ credentials = [i \in DOMAIN SeedScopes |-> SeedRow(i, "active")]
    /\ user_permissions = SeedGrants
    /\ audit_logs = <<>>
    /\ tasks = NoTasks
    /\ db_connection = NoConnection
    /\ vault_kv = SeedKv
    /\ vault = "connected"
    /\ last = NoRequest

\* the call, up to the answer of get_by_id
update_get_by_id(t, credential_id, user_id, access_key, secret_key) ==
    /\ tasks[t].pc = "idle"
    /\ IF ~credential_found(credential_id)
       THEN /\ last' = Outcome("update_credential", user_id, credential_id,
                               NoId, NoId, access_key, secret_key, "None",
                               404, <<>>, None, None, FALSE)
            /\ UNCHANGED tasks
       ELSE /\ tasks' = [tasks EXCEPT ![t] =
                            [pc |-> "check_permission",
                             credential_id |-> credential_id,
                             user_id |-> user_id,
                             access_key |-> access_key,
                             secret_key |-> secret_key,
                             status |-> "None",
                             credential |-> credentials[credential_id]]]
            /\ UNCHANGED last
    /\ UNCHANGED <<credentials, user_permissions, audit_logs, vault_kv, vault,
                   db_connection>>

\* from the answer of get_by_id to the answer of check_permission
update_check_permission(t) ==
    LET task == tasks[t] IN
    /\ task.pc = "check_permission"
    /\ IF ~check_permission(task.user_id, task.credential.customer_id,
                            task.credential.project_id)
       THEN /\ last' = Outcome("update_credential", task.user_id,
                               task.credential_id, NoId, NoId,
                               task.access_key, task.secret_key, "None",
                               403, <<>>, None, None, FALSE)
            /\ tasks' = [tasks EXCEPT ![t] = IdleTask]
       ELSE /\ tasks' = [tasks EXCEPT ![t].pc = "update"]
            /\ UNCHANGED last
    /\ UNCHANGED <<credentials, user_permissions, audit_logs, vault_kv, vault,
                   db_connection>>

\* from the answer of check_permission to the end of the handler
update_resume(t, iv, write_ok, delete_ok) ==
    LET task == tasks[t] IN
    /\ task.pc = "update"
    /\ tasks' = [tasks EXCEPT ![t] = IdleTask]
    /\ UNCHANGED <<user_permissions, vault, db_connection>>
    /\ update_from_vault(task.credential, task.credential_id, task.user_id,
                         task.access_key, task.secret_key, None, None,
                         task.status, iv, write_ok, delete_ok)

NextRace ==
    \/ \E t \in Tasks, r \in RaceRequests :
          update_get_by_id(t, r[1], r[2], r[3], r[4])
    \/ \E t \in Tasks : update_check_permission(t)
    \/ \E t \in Tasks, write_ok \in BOOLEAN, delete_ok \in BOOLEAN :
          update_resume(t, "iv1", write_ok, delete_ok)

SpecRace == InitRace /\ [][NextRace]_vars

\* ---------------------------------------------------- the connection pool
\* the requests that can be waiting for the pool at once
MaxCallers == 4

Callers == 1 .. MaxCallers

\* a coroutine outside get_pool; "pool" is what its last call returned
IdleCaller == [pc |-> "idle", pool |-> NoPool]

InitPool ==
    /\ credentials = [i \in DOMAIN SeedScopes |-> SeedRow(i, "active")]
    /\ user_permissions = SeedGrants
    /\ audit_logs = <<>>
    /\ vault_kv = SeedKv
    /\ vault = "connected"
    /\ last = NoRequest
    /\ tasks = [t \in Callers |-> IdleCaller]
    /\ db_connection = NoConnection

\* get_db_connection(): the global after the call; nothing is awaited
\* between the test and the assignment
get_db_connection(db) ==
    IF ~db.made THEN [NoConnection EXCEPT !.made = TRUE] ELSE db

\* db = await get_db_connection(); pool = await db.get_pool(), up to the
\* first suspension: a pool that exists is returned at once, otherwise
\* the coroutine suspends inside "await asyncmy.create_pool(...)"
get_pool(t) ==
    LET db == get_db_connection(db_connection) IN
    /\ tasks[t].pc = "idle"
    /\ db_connection' = db
    /\ IF db.pool = NoPool
       THEN tasks' = [tasks EXCEPT ![t] = [pc |-> "create_pool", pool |-> NoPool]]
       ELSE tasks' = [tasks EXCEPT ![t] = [pc |-> "idle", pool |-> db.pool]]
    /\ UNCHANGED <<credentials, user_permissions, audit_logs, vault_kv, vault, last>>

\* asyncmy.create_pool answers: a pool is made and assigned to self._pool,
\* whatever self._pool holds by now, and "return self._pool" follows with
\* no suspension in between; on an exception the error is logged and
\* re-raised and self._pool is left alone
get_pool_resume(t, created) ==
    LET made == db_connection.pools + 1 IN
    /\ tasks[t].pc = "create_pool"
    /\ IF created
       THEN /\ db_connection' = [db_connection EXCEPT !.pool = made, !.pools = made]
            /\ tasks' = [tasks EXCEPT ![t] = [pc |-> "idle", pool |-> made]]
       ELSE /\ tasks' = [tasks EXCEPT ![t] = IdleCaller]
            /\ UNCHANGED db_connection
    /\ UNCHANGED <<credentials, user_permissions, audit_logs, vault_kv, vault, last>>

NextPool ==
    \/ \E t \in Callers : get_pool(t)
    \/ \E t \in Callers, created \in BOOLEAN : get_pool_resume(t, created)

SpecPool == InitPool /\ [][NextPool]_vars

\* ====================================================================
\* Properties
\* ====================================================================

\* a step that serves a request (every other step changes vault)
Served(op) == vault' = vault /\ last'.op = op

\* a text that carries secret material, in the clear or inside a token
Tainted(text) == \E i \in 1..Len(text) : text[i] \in SecretAtoms

RowTexts(row) ==
    {row.access_key, row.vault_path, row.resource_user, row.labels}

\* C1: no credential row and no audit entry carries a secret key, plain or
\* encrypted; in the secret store every payload's secret_key is an
\* encrypted token and nothing else of the payload or its path carries
\* secret material.
C1_NoSecretInRelationalStore ==
    /\ \A i \in DOMAIN credentials :
          /\ DOMAIN credentials[i] =
                {"id", "customer_id", "project_id", "vendor_id", "access_key",
                 "vault_path", "resource_user", "labels", "status"}
          /\ \A t \in RowTexts(credentials[i]) : ~Tainted(t)
    /\ \A i \in DOMAIN audit_logs : ~Tainted(audit_logs[i].details)
    /\ \A p \in DOMAIN vault_kv :
          /\ IsToken(vault_kv[p].secret_key)
          /\ ~Tainted(vault_kv[p].access_key)
          /\ ~Tainted(p)

\* an update has written a new secret and an audit entry exists
C1_Witness ==
    /\ last.op = "update_credential"
    /\ Len(last.io) > 0 /\ last.io[1] = "vault_write"
    /\ Len(audit_logs) > 0
    /\ \E p \in DOMAIN vault_kv :
          decrypt(vault_kv[p].secret_key).value = last.secret_key

\* a grant that matches a request scope, as the permission model states it
GrantMatches(g, user_id, customer_id, project_id) ==
    /\ g.user_id = user_id
    /\ (g.customer_id = NoId \/ g.customer_id = customer_id)
    /\ (g.project_id = NoId \/ g.project_id = project_id)

\* the user holds a grant matching the scope of credential id
HoldsGrant(user_id, id) ==
    \E g \in user_permissions :
        GrantMatches(g, user_id, credentials[id].customer_id,
                     credentials[id].project_id)

VaultIo == {"vault_write", "vault_write_error", "vault_delete",
            "vault_delete_error", "vault_read", "vault_read_error"}

NoVaultIo(io) == \A i \in 1..Len(io) : io[i] \notin VaultIo

\* the request l needs the secret store
NeedsStore(l) ==
    \/ l.op = "create_credential"
    \/ l.op = "update_credential" /\ Truthy(l.secret_key)
    \/ l.op = "get_credential_for_api_call"

\* the request l passes the checks its handler makes before it turns to the
\* secret store
PassesChecks(l) ==
    \/ /\ l.op = "create_credential"
       /\ l.customer_id \in CustomerIds
       /\ l.vendor_id \in VendorIds
    \/ /\ l.op = "update_credential"
       /\ l.credential_id \in DOMAIN credentials
       /\ HoldsGrant(l.user_id, l.credential_id)
    \/ /\ l.op = "get_credential_for_api_call"
       /\ l.credential_id \in DOMAIN credentials
       /\ credentials[l.credential_id].status = "active"
       /\ HoldsGrant(l.user_id, l.credential_id)

\* C2: while the secret store is unavailable (no adapter, or is_connected()
\* false), CreateCredential, UpdateCredential with a new secret_key and
\* GetCredentialForExternalCall never succeed and leave the credential
\* table, the secret store and the audit log unchanged; a request that
\* passes the handler's earlier checks (customer and vendor exist; the
\* credential exists, is active for a retrieval, and the caller holds a
\* grant) fails with 503.
C2_UnavailableStoreFailsClosed ==
    [][(vault # "connected" /\ vault' = vault /\ NeedsStore(last'))
          => /\ last'.code \in {400, 403, 404, 503}
             /\ NoVaultIo(last'.io)
             /\ UNCHANGED <<credentials, vault_kv, audit_logs>>
             /\ (PassesChecks(last') => last'.code = 503)]_vars

\* an update carrying a new secret was refused with 503
C2_Witness ==
    /\ vault # "connected"
    /\ last.op = "update_credential"
    /\ Truthy(last.secret_key)
    /\ last.code = 503

\* the create request l meets the preconditions of C3 and C4: customer and
\* vendor exist, the store is available and its write did not raise
CreateGoesThrough(l) ==
    /\ l.op = "create_credential"
    /\ l.customer_id \in CustomerIds
    /\ l.vendor_id \in VendorIds
    /\ vault = "connected"
    /\ l.io # <<"vault_write_error">>

\* C3: with an existing customer and vendor, the secret store available and
\* its write succeeding, CreateCredential succeeds, inserts exactly one row
\* with the given access_key and the computed vault_path, and returns that
\* row's id and access_key.
C3_CreateSucceeds ==
    [][(vault' = vault /\ CreateGoesThrough(last'))
          => /\ last'.code = 200
             /\ Len(credentials') = Len(credentials) + 1
             /\ SubSeq(credentials', 1, Len(credentials)) = credentials
             /\ credentials'[Len(credentials')].access_key = last'.access_key
             /\ credentials'[Len(credentials')].vault_path =
                   VaultPath(last'.customer_id, last'.vendor_id,
                             last'.access_key)
             /\ last'.credential_id = Len(credentials')
             /\ last'.ret_access_key = last'.access_key]_vars

\* C4: after CreateCredential with access key AK and secret SK under an
\* existing customer and vendor, GetCredentialForExternalCall on the created
\* credential by a user holding a matching grant returns AK and SK.
C4_CreateThenRetrieve ==
    [][(vault' = vault /\ CreateGoesThrough(last'))
          => \E id \in DOMAIN credentials' :
                /\ id \notin DOMAIN credentials
                /\ \A u \in Users :
                      (\E g \in user_permissions :
                          GrantMatches(g, u, credentials'[id].customer_id,
                                       credentials'[id].project_id))
                      => LET r == api_call_response(credentials',
                                      user_permissions', vault_kv', TRUE,
                                      id, u, TRUE)
                         IN /\ r.code = 200
                            /\ r.access_key = last'.access_key
                            /\ r.secret_key = last'.secret_key]_vars

\* position of the first occurrence of event e in io, 0 if none
FirstAt(io, e) ==
    IF \E i \in 1..Len(io) : io[i] = e
    THEN CHOOSE i \in 1..Len(io) :
            io[i] = e /\ \A j \in 1..(i - 1) : io[j] # e
    ELSE 0

\* C5: an UpdateCredential that supplies a new secret writes the new path
\* before it updates the row, and deletes the old path only after the row
\* update has succeeded.
C5_WriteThenUpdateThenDelete ==
    (last.op = "update_credential" /\ Truthy(last.secret_key))
        => /\ FirstAt(last.io, "db_update") # 0
                => /\ FirstAt(last.io, "vault_write") # 0
                   /\ FirstAt(last.io, "vault_write")
                          < FirstAt(last.io, "db_update")
           /\ \A e \in {"vault_delete", "vault_delete_error"} :
                FirstAt(last.io, e) # 0
                    => /\ FirstAt(last.io, "db_update") # 0
                       /\ FirstAt(last.io, "db_update") < FirstAt(last.io, e)

\* the update request l is admitted: the credential exists, the caller holds
\* a grant, and a new secret, if any, was written to an available store
UpdateGoesThrough(l) ==
    /\ l.op = "update_credential"
    /\ l.credential_id \in DOMAIN credentials
    /\ HoldsGrant(l.user_id, l.credential_id)
    /\ Truthy(l.secret_key)
          => vault = "connected" /\ l.io # <<"vault_write_error">>

PathDerived(row) ==
    row.vault_path = VaultPath(row.customer_id, row.vendor_id, row.access_key)

\* C6: every row's vault_path is the path derived from the row's own
\* customer, project scope, vendor and access_key, and an Update that
\* changes access_key, with or without a new secret, leaves the row with the
\* new key and the path recomputed for it.
C6_VaultPathFollowsAccessKey ==
    [][/\ \A i \in DOMAIN credentials' : PathDerived(credentials'[i])
       /\ (vault' = vault /\ UpdateGoesThrough(last')
              /\ Truthy(last'.access_key))
             => /\ credentials'[last'.credential_id].access_key =
                      last'.access_key
                /\ PathDerived(credentials'[last'.credential_id])]_vars

StatusMoves ==
    {<<"active", "disabled">>, <<"disabled", "active">>,
     <<"active", "deleted">>, <<"disabled", "deleted">>}

\* C7: deleted is terminal: no step changes the status of a deleted
\* credential, and every change of status is one of active <-> disabled,
\* active -> deleted, disabled -> deleted.
C7_DeletedIsTerminal ==
    [][\A i \in DOMAIN credentials :
          /\ i \in DOMAIN credentials'
          /\ credentials[i].status = "deleted"
                => credentials'[i].status = "deleted"
          /\ credentials'[i].status # credentials[i].status
                => <<credentials[i].status, credentials'[i].status>>
                       \in StatusMoves]_vars

\* a grant holder asked to set a deleted credential active, and it is still
\* deleted
C7_Witness ==
    /\ last.op = "update_credential"
    /\ last.status = "active"
    /\ last.credential_id \in DOMAIN credentials
    /\ HoldsGrant(last.user_id, last.credential_id)
    /\ credentials[last.credential_id].status = "deleted"

GatedOps == {"get_credential_context", "get_credential_for_api_call",
             "update_credential", "delete_credential"}

\* C8: for a caller with no grant matching the credential's (customer_id,
\* project_id), GetCredentialContext, GetCredentialForExternalCall,
\* UpdateCredential and DeleteCredential never succeed, perform no
\* secret-store I/O and leave the credential table, the secret store and the
\* audit log unchanged; they fail with 403 (the two retrievals when the
\* credential is active: their status check comes first and answers 400).
C8_NoGrantIsForbidden ==
    [][(/\ vault' = vault
        /\ last'.op \in GatedOps
        /\ last'.credential_id \in DOMAIN credentials
        /\ ~HoldsGrant(last'.user_id, last'.credential_id))
          => /\ NoVaultIo(last'.io)
             /\ UNCHANGED <<credentials, vault_kv, audit_logs>>
             /\ last'.code \in {400, 403}
             /\ last'.code = 400
                   => /\ last'.op \in {"get_credential_context",
                                       "get_credential_for_api_call"}
                      /\ credentials[last'.credential_id].status
                             # "active"]_vars

\* u1, whose only grant is on customer 1, was refused the secret of the
\* active credential of customer 2 with the store available
C8_Witness ==
    /\ last.op = "get_credential_for_api_call"
    /\ last.code = 403
    /\ last.user_id = "u1"
    /\ user_permissions # {}
    /\ vault = "connected"
    /\ credentials[last.credential_id].status = "active"

\* C9: hasPermission(user, customer, project) is true exactly when some
\* stored grant has the requester's user_id, a customer_id that is null or
\* equal to the requested customer, and a project_id that is null or equal
\* to the requested project; other grants do not matter.
C9_HasPermissionIffGrantMatches ==
    last.op = "check_permission"
        => last.ret_flag =
              (\E g \in user_permissions :
                  GrantMatches(g, last.user_id, last.customer_id,
                               last.project_id))

\* granted through a customer wildcard alone, next to a grant that does not
\* match
C9_Witness ==
    /\ last.op = "check_permission"
    /\ last.ret_flag
    /\ last.customer_id # NoId
    /\ Cardinality(user_permissions) = 2
    /\ \E g \in user_permissions :
          /\ g.customer_id = NoId
          /\ GrantMatches(g, last.user_id, last.customer_id, last.project_id)
          /\ \A h \in user_permissions \ {g} :
                ~GrantMatches(h, last.user_id, last.customer_id,
                              last.project_id)

AuditAction(op) ==
    CASE op = "create_credential" -> "create_credential"
      [] op = "update_credential" -> "update_credential"
      [] op = "delete_credential" -> "delete_credential"
      [] op = "get_credential_for_api_call" -> "retrieve_credential_for_api"
      [] op = "get_credential_context" -> "use_credential"

\* the request l succeeded (a delete that found nothing to delete and
\* answers False is not a deletion)
Succeeded(l) ==
    /\ l.op \in {"create_credential", "update_credential",
                 "delete_credential", "get_credential_for_api_call",
                 "get_credential_context"}
    /\ l.code = 200
    /\ l.op = "delete_credential" => l.ret_flag

\* C10: every successful Create, Update, Delete, GetForExternalCall and
\* GetContext appends exactly one audit entry, whose credential_id is the
\* credential acted on and whose action is the operation's action name.
C10_OneAuditEntryPerSuccess ==
    [][(vault' = vault /\ Succeeded(last'))
          => /\ Len(audit_logs') = Len(audit_logs) + 1
             /\ SubSeq(audit_logs', 1, Len(audit_logs)) = audit_logs
             /\ audit_logs'[Len(audit_logs')].credential_id =
                   last'.credential_id
             /\ audit_logs'[Len(audit_logs')].action = AuditAction(last'.op)
             /\ audit_logs'[Len(audit_logs')].user_id = last'.user_id]_vars

\* a retrieval succeeded and the newest audit entry records it
C10_Witness ==
    /\ last.op = "get_credential_for_api_call"
    /\ last.code = 200
    /\ Len(audit_logs) > 0
    /\ audit_logs[Len(audit_logs)].action = "retrieve_credential_for_api"
    /\ audit_logs[Len(audit_logs)].credential_id = last.credential_id

IsPrefix(s, t) == Len(s) <= Len(t) /\ SubSeq(t, 1, Len(s)) = s

\* C11: the audit log is append-only: every step leaves the entries already
\* written in place and unmodified, so the log of any later state extends
\* the log of any earlier state.
C11_AuditLogAppendOnly == [][IsPrefix(audit_logs, audit_logs')]_vars

\* two requests have been audited and the first entry is still the first
C11_Witness ==
    /\ Len(audit_logs) = 2
    /\ audit_logs[1].id = 1
    /\ audit_logs[2].id = 2
    /\ audit_logs[1].action # audit_logs[2].action

\* the users who hold a grant on row
Permitted(row) ==
    {u \in Users :
        \E g \in user_permissions :
            GrantMatches(g, u, row.customer_id, row.project_id)}

TableIo == {"db_insert", "db_insert_error", "db_update", "db_update_error",
            "audit"}

\* C14: when the secret-store write raises during CreateCredential or
\* UpdateCredential, the request reports Internal (500), goes on to no
\* table or audit operation, inserts or changes no credential row and
\* appends no audit entry.
C14_WriteFailureLeavesNoTrace ==
    [][(/\ vault' = vault
        /\ last'.op \in {"create_credential", "update_credential"}
        /\ FirstAt(last'.io, "vault_write_error") # 0)
          => /\ last'.code = 500
             /\ \A i \in 1..Len(last'.io) : last'.io[i] \notin TableIo
             /\ UNCHANGED <<credentials, audit_logs>>]_vars

\* a rotation by a permitted user whose store write raised
C14_Witness ==
    /\ last.op = "update_credential"
    /\ Truthy(last.secret_key)
    /\ last.io = <<"vault_write_error">>
    /\ last.code = 500
    /\ HoldsGrant(last.user_id, last.credential_id)

Retrievals == {"get_credential_context", "get_credential_for_api_call"}

\* C15: for a credential that is disabled or deleted, GetCredentialContext
\* and GetCredentialForExternalCall fail, return neither the access key nor
\* the secret, read nothing from the store and append no audit entry,
\* whatever grants the caller holds.
C15_OnlyActiveIsReturned ==
    [][(/\ vault' = vault
        /\ last'.op \in Retrievals
        /\ last'.credential_id \in DOMAIN credentials
        /\ credentials[last'.credential_id].status # "active")
          => /\ last'.code # 200
             /\ last'.ret_access_key = None
             /\ last'.ret_secret_key = None
             /\ NoVaultIo(last'.io)
             /\ UNCHANGED <<credentials, vault_kv, audit_logs>>]_vars

\* a grant holder was refused the secret of a disabled credential with the
\* store available
C15_Witness ==
    /\ last.op = "get_credential_for_api_call"
    /\ last.code = 400
    /\ vault = "connected"
    /\ HoldsGrant(last.user_id, last.credential_id)
    /\ credentials[last.credential_id].status = "disabled"

\* C16: the results of CreateCredential, UpdateCredential,
\* GetCredentialContext and ListCredentials (and of DeleteCredential) carry
\* no secret_key field and no secret material in any field;
\* GetCredentialForExternalCall is the only operation that returns the
\* secret.
C16_OnlyApiCallCarriesSecret ==
    last.op # "get_credential_for_api_call"
        => /\ last.ret_secret_key = None
           /\ ~Tainted(last.ret_access_key)
           /\ \A i \in DOMAIN last.ret_rows :
                 /\ "secret_key" \notin DOMAIN last.ret_rows[i]
                 /\ \A t \in RowTexts(last.ret_rows[i]) : ~Tainted(t)

\* a list response with a credential whose secret is in the store
C16_Witness ==
    /\ last.op = "list_credentials"
    /\ Len(last.ret_rows) > 0
    /\ KvPath(last.ret_rows[1].vault_path) \in DOMAIN vault_kv

\* the credentials a list request l is to return: not deleted, in a scope
\* one of the caller's grants matches, and passing the optional filters
Listable(l) ==
    {i \in DOMAIN credentials :
        /\ credentials[i].status # "deleted"
        /\ \E g \in user_permissions :
              GrantMatches(g, l.user_id, credentials[i].customer_id,
                           credentials[i].project_id)
        /\ (l.customer_id # NoId
               => credentials[i].customer_id = l.customer_id)
        /\ (l.project_id # NoId => credentials[i].project_id = l.project_id)}

\* m shows the first 4 characters of k and a mask character for each other
MaskedTo4(m, k) ==
    /\ Len(m) = Len(k)
    /\ \A j \in 1..Len(k) : m[j] = IF j <= 4 THEN k[j] ELSE "*"

DeletePermitted(l) ==
    /\ l.op = "delete_credential"
    /\ l.credential_id \in DOMAIN credentials
    /\ HoldsGrant(l.user_id, l.credential_id)

\* C18: DeleteCredential by a permitted user is a soft delete: the row
\* stays, its status becomes deleted, every other field of it and every
\* other row keep their values, and the secret store is unchanged (the
\* secret at vault_path is still there).
C18_DeleteIsSoft ==
    [][(/\ vault' = vault
        /\ DeletePermitted(last')
        /\ credentials[last'.credential_id].status # "deleted")
          => /\ last'.ret_flag
             /\ credentials' =
                   [credentials EXCEPT
                       ![last'.credential_id].status = "deleted"]
             /\ vault_kv' = vault_kv]_vars

\* a credential was deleted and its secret is still in the store
C18_Witness ==
    /\ last.op = "delete_credential"
    /\ last.ret_flag
    /\ credentials[last.credential_id].status = "deleted"
    /\ KvPath(credentials[last.credential_id].vault_path) \in DOMAIN vault_kv

C20_PatchSemantics ==
    [][\A i \in DOMAIN credentials :
          /\ i \in DOMAIN credentials'
          /\ credentials'[i].id = credentials[i].id
          /\ credentials'[i].customer_id = credentials[i].customer_id
          /\ credentials'[i].project_id = credentials[i].project_id
          /\ credentials'[i].vendor_id = credentials[i].vendor_id
          /\ (vault' = vault /\ last'.op = "update_credential")
                => /\ i # last'.credential_id
                         => credentials'[i] = credentials[i]
                   /\ ~Truthy(last'.access_key)
                         => credentials'[i].access_key
                               = credentials[i].access_key
                   /\ ~Truthy(last'.secret_key)
                         => credentials'[i].vault_path
                               = credentials[i].vault_path
                   /\ last'.status = "None"
                         => credentials'[i].status = credentials[i].status
                   /\ credentials'[i].resource_user
                         = credentials[i].resource_user
                   /\ credentials'[i].labels = credentials[i].labels]_vars

\* a permitted update that supplied a status only, on a row that has been
\* deleted since it was provisioned: its keys and scope are as provisioned
C20_Witness ==
    /\ last.op = "update_credential"
    /\ last.status # "None"
    /\ ~Truthy(last.access_key)
    /\ ~Truthy(last.secret_key)
    /\ last.credential_id \in DOMAIN credentials
    /\ HoldsGrant(last.user_id, last.credential_id)
    /\ credentials[last.credential_id] =
          SeedRow(last.credential_id, "deleted")

\* access keys to compare: the request keys and keys that are prefixes or
\* suffixes of them
PathKeys == AccessKeys \cup {<<"A">>, <<"A", "K", "I", "A">>, <<"1">>}

EndsWith(path, key) ==
    /\ Len(path) >= Len(key)
    /\ SubSeq(path, Len(path) - Len(key) + 1, Len(path)) = key

\* the update request l rotates both keys of a credential the caller holds
\* a grant on, to an access key other than the row's
RotatesKeys(l) ==
    /\ UpdateGoesThrough(l)
    /\ Truthy(l.access_key)
    /\ Truthy(l.secret_key)
    /\ l.access_key # credentials[l.credential_id].access_key

C22_CreateNeedsCustomerAndVendor ==
    [][(/\ vault' = vault
        /\ last'.op = "create_credential"
        /\ (last'.customer_id \notin CustomerIds
               \/ last'.vendor_id \notin VendorIds))
          => /\ last'.code = 404
             /\ last'.io = <<>>
             /\ UNCHANGED <<credentials, vault_kv, audit_logs>>]_vars

\* a create naming a missing vendor was refused with the store available
C22_Witness ==
    /\ last.op = "create_credential"
    /\ last.vendor_id = MissingId
    /\ last.customer_id \in CustomerIds
    /\ last.code = 404
    /\ vault = "connected"

\* C23: constructing the service and its secret store adapter never raises;
\* a missing address, a failed login, an unauthenticated client or an
\* unsupported method leave the adapter unavailable and the service built.
C23_ConstructionNeverRaises ==
    (/\ last.op = "CredentialService"
     /\ last.settings.vault_credential_path # "None")
       => /\ last.io = <<>>
          /\ last.code = 200

C25_ShortKeyFullyMasked ==
    (/\ last.op = "mask_access_key"
     /\ last.access_key = SHORT
     /\ last.visible_chars = 4)
       => last.ret_access_key = <<"*", "*", "*", "*", "*">>

\* C26: decrypt(encrypt(s)) = s and encrypt(s) # s for every non-empty s;
\* encrypt("") = "" and decrypt("") = "".
C26_EncryptRoundTrips ==
    /\ last.op \in {"encrypt", "decrypt"}
          => /\ last.secret_key # <<>> => last.ciphertext # last.secret_key
             /\ last.secret_key = <<>> => last.ciphertext = <<>>
    /\ last.op = "decrypt"
          => /\ last.code = 200
             /\ last.ret_secret_key = last.secret_key

\* a non-empty plaintext came back from its token
C26_Witness ==
    /\ last.op = "decrypt"
    /\ Len(last.secret_key) = MaxTextLen
    /\ IsToken(last.ciphertext)
    /\ last.ret_secret_key = last.secret_key

\* C27: in every reachable state, also the one an update leaves that failed
\* at its database step, the vault_path of each active credential row names
\* a path that holds a secret in the store.
C27_ActivePathHoldsSecret ==
    \A id \in DOMAIN credentials :
        credentials[id].status = "active"
           => KvPath(credentials[id].vault_path) \in DOMAIN vault_kv

\* the step ends the update of task t, which rotates the secret, has written
\* it to the store, and ran while another update of the same credential was
\* in flight
EndsOverlappedUpdate(t) ==
    /\ tasks[t].pc = "update"
    /\ tasks'[t].pc = "idle"
    /\ Truthy(tasks[t].secret_key)
    /\ FirstAt(last'.io, "vault_write") = 1
    /\ \E o \in Tasks \ {t} :
          /\ tasks[o].pc # "idle"
          /\ tasks[o].credential_id = tasks[t].credential_id

\* C28: two updates of one credential that overlap both complete
\* successfully, each writing its row, whatever the other has done in
\* between: no version check rejects either.
C28_OverlappedUpdatesComplete ==
    [][\A t \in Tasks :
          EndsOverlappedUpdate(t)
             => /\ last'.code = 200
                /\ KvPath(credentials'[tasks[t].credential_id].vault_path)
                      \in DOMAIN vault_kv']_vars

\* under any interleaving, no update that reaches the database call
\* completes: it ends with 500 and the table as it was
RaceUpdatesFail ==
    [][\A t \in Tasks :
          (tasks[t].pc = "update" /\ tasks'[t].pc = "idle")
             => /\ last'.code \in {500, 503}
                /\ UNCHANGED <<credentials, audit_logs>>]_vars

\* the rows a step has added to the credentials table
NewRows == {id \in DOMAIN credentials' : id \notin DOMAIN credentials}

C30_CreatedRowIsActive ==
    [][(vault' = vault /\ CreateGoesThrough(last')
          /\ last'.status # "active")
          => /\ NewRows # {}
             /\ \A id \in NewRows : credentials'[id].status = "active"
      ]_vars

\* the step is a request whose primary mutation was committed and whose
\* audit INSERT then failed
AuditFailed(l) == FirstAt(l.io, "audit_error") # 0

\* C31: when the audit entry cannot be appended after the row insert, the
\* row update or the soft delete has been committed, the mutation stays
\* and the caller still receives the operation's success result.
C31_AuditFailureKeepsSuccess ==
    [][(vault' = vault /\ AuditFailed(last'))
          => /\ credentials' # credentials
             /\ last'.http \in {200, 201, HTTP_204_NO_CONTENT}]_vars

\* C32: an UpdateCredential whose delete of the old vault path fails still
\* completes: the row carries the new path, the audit entry is appended and
\* the caller receives success.
C32_DeleteFailureIsSwallowed ==
    [][(/\ vault' = vault
        /\ last'.op = "update_credential"
        /\ FirstAt(last'.io, "vault_delete_error") # 0)
          => /\ last'.code = 200
             /\ credentials'[last'.credential_id].vault_path
                   = VaultPath(credentials[last'.credential_id].customer_id,
                               credentials[last'.credential_id].vendor_id,
                               last'.access_key)
             /\ Len(audit_logs') = Len(audit_logs) + 1]_vars

\* the retrieval request l passed the checks of the handler up to the read
\* of the store
ReachesRead(l) ==
    /\ l.op = "get_credential_for_api_call"
    /\ l.credential_id \in DOMAIN credentials
    /\ credentials[l.credential_id].status = "active"
    /\ HoldsGrant(l.user_id, l.credential_id)
    /\ vault = "connected"

\* the payload under the row's path holds a token that does not decrypt
Undecryptable(id) ==
    /\ CanRead(vault_kv, credentials[id].vault_path)
    /\ read_secret(vault_kv, credentials[id].vault_path).secret_key # <<>>
    /\ ~IsToken(read_secret(vault_kv, credentials[id].vault_path).secret_key)

\* C33: when the read of the store fails, or the payload it returns does
\* not decrypt, GetCredentialForExternalCall fails with 500, returns no
\* secret and appends no audit entry.
C33_UnreadableSecretFails ==
    [][(/\ vault' = vault
        /\ ReachesRead(last')
        /\ \/ ~CanRead(vault_kv, credentials[last'.credential_id].vault_path)
           \/ FirstAt(last'.io, "vault_read_error") # 0
           \/ Undecryptable(last'.credential_id))
          => /\ last'.code = 500
             /\ last'.ret_secret_key = None
             /\ last'.ret_access_key = None
             /\ UNCHANGED <<audit_logs, credentials, vault_kv>>]_vars

\* a retrieval read a payload whose token did not decrypt and was refused
C33_Witness ==
    /\ last.op = "get_credential_for_api_call"
    /\ last.credential_id \in DOMAIN credentials
    /\ Undecryptable(last.credential_id)
    /\ last.io = <<"vault_read">>
    /\ last.code = 500

\* C34: every GetCredentialContext, GetCredentialForExternalCall,
\* UpdateCredential and DeleteCredential is decided by the grants as they
\* are when the call is made: a user whose last matching grant has been
\* deleted is refused (403; 400 when a retrieval finds the credential not
\* active first), and a user for whom a matching grant has been created is
\* not answered 403.
C34_GrantChangesApplyAtOnce ==
    [][(/\ last'.op \in GatedOps
        /\ last'.credential_id \in DOMAIN credentials)
          => /\ ~HoldsGrant(last'.user_id, last'.credential_id)
                   => /\ last'.code \in {400, 403}
                      /\ UNCHANGED <<credentials, vault_kv, audit_logs>>
                      /\ last'.code = 400
                            => credentials[last'.credential_id].status
                                  # "active"
             /\ HoldsGrant(last'.user_id, last'.credential_id)
                   => last'.code # 403]_vars

\* u1, who held the only grant at the start, has lost it and is refused on
\* the active credential 1, while u2 has been given a grant
C34_Witness ==
    /\ last.op \in GatedOps
    /\ last.user_id = "u1"
    /\ last.credential_id = 1
    /\ last.code = 403
    /\ credentials[1].status = "active"
    /\ \A g \in user_permissions : g.user_id = "u2"
    /\ user_permissions # {}

\* the plaintext a retrieval of credential id would decrypt from the store
\* kv; None when the row's path holds nothing
StoredSecret(kv, id) ==
    IF CanRead(kv, credentials[id].vault_path)
    THEN decrypt(read_secret(kv, credentials[id].vault_path).secret_key).value
    ELSE None

\* C35: the secret GetCredentialForExternalCall returns for a credential
\* changes only through an UpdateCredential on that credential; a
\* CreateCredential or a rotation of another credential with the same
\* customer, vendor and access key does not overwrite it.
C35_SecretChangesOnlyByOwnUpdate ==
    [][\A id \in DOMAIN credentials :
          StoredSecret(vault_kv', id) # StoredSecret(vault_kv, id)
             => /\ last'.op = "update_credential"
                /\ last'.credential_id = id]_vars

\* C36: CreateCredential asks no permission: the same request against the
\* same tables and store has the same outcome (status, I/O, row inserted,
\* secret written) whichever user makes it, with or without a grant on the
\* customer.
C36_CreateIgnoresGrants ==
    [][(vault' = vault /\ last'.op = "create_credential")
          => \A u \in Users : \E iv \in Nonces, write_ok \in BOOLEAN :
                LET r == create_response(u, last'.customer_id,
                             last'.vendor_id, last'.access_key,
                             last'.secret_key, last'.status, iv, write_ok)
                IN  /\ [r.last EXCEPT !.user_id = last'.user_id] = last'
                    /\ r.credentials = credentials'
                    /\ r.vault_kv = vault_kv'
                    /\ Len(r.audit_logs) = Len(audit_logs')
             ]_vars

\* u2, who holds no grant at all, had the secret of its create request
\* written for customer 1
C36_Witness ==
    /\ last.op = "create_credential"
    /\ last.user_id = "u2"
    /\ last.customer_id = 1
    /\ \A g \in user_permissions : g.user_id # "u2"
    /\ FirstAt(last.io, "vault_write") = 1
    /\ StoredSecret(vault_kv, 1) = last.secret_key
    /\ last.access_key = AK1

\* C37: at most one connection pool is ever created per process: callers
\* of get_pool that overlap while no pool exists all end up with the same
\* single pool, and no pool is created twice
C37_AtMostOnePool ==
    /\ db_connection.pools <= 1
    /\ \A t \in DOMAIN tasks, o \in DOMAIN tasks :
          (/\ tasks[t].pc = "idle" /\ tasks[t].pool # NoPool
           /\ tasks[o].pc = "idle" /\ tasks[o].pool # NoPool)
          => tasks[t].pool = tasks[o].pool

====
